---------------------------- MODULE Spec2Model ----------------------------
(***************************************************************************)
(* A model of the coral front end: the character Scanner and the Lexer of  *)
(* lexer.py, the Token table of token.py and the pattern matchers of       *)
(* pattern.py.                                                             *)
(*                                                                         *)
(* Strings are sequences of one-character strings.  Python's None is the   *)
(* value None below.  An exception is the name of its class.               *)
(***************************************************************************)
EXTENDS Integers, Sequences, FiniteSets, TLC

VARIABLES
    source,     \* Scanner.source
    pos,        \* Scanner.pos
    tokens,     \* the Tokens Lexer.tokenize has yielded so far, in order
    status,     \* the tokenize generator: "running", "done" or the exception raised
    last,       \* the loop iteration tokenize ran last: where it started, the branch
                \* it took, the Token it yielded and where the scanner was at the yield
    stream,     \* the token cursor's tokens
    idx,        \* the token cursor's position: the index of the next token, from 0
    consumed,   \* the arguments of the calls to token_stream.consume, in order
    call,       \* the match call made on the cursor: matcher, configuration, start index
    outcome,    \* what that call did: returned a Match, returned None, or raised
    op          \* the Scanner method called last, directly: its name and argument, the
                \* position before it, what it returned and the exception it raised

lexVars == <<source, pos, tokens, status, last>>
patVars == <<stream, idx, consumed, call, outcome>>
vars == <<source, pos, tokens, status, last, stream, idx, consumed, call, outcome, op>>

None == "None"

Min(a, b) == IF a < b THEN a ELSE b

Last(s) == s[Len(s)]

(***************************************************************************)
(* Bounds of the model.                                                    *)
(***************************************************************************)
MaxPieces == 3
MaxStream == 3
MaxSource == 3
MaxArg == 3

(***************************************************************************)
(* token.py                                                                *)
(***************************************************************************)
Letters ==
    {"a","b","c","d","e","f","g","h","i","j","k","l","m","n","o","p","q","r","s",
     "t","u","v","w","x","y","z",
     "A","B","C","D","E","F","G","H","I","J","K","L","M","N","O","P","Q","R","S",
     "T","U","V","W","X","Y","Z"}

Digits == {"0","1","2","3","4","5","6","7","8","9"}

allowed_identifier_chars == Letters \cup Digits \cup {"_"}

\* Token(token_type, value, node_type).  Token defines no __eq__, so two Tokens
\* compare equal exactly when they are the same object: oid is the object's identity.
Token(token_type, value, node_type, oid) ==
    [token_type |-> token_type, value |-> value, node_type |-> node_type, oid |-> oid]

TokenType ==
    {"UNARY", "BINARY", "IDENTIFIER", "VALUE", "CONTROL_FLOW", "KEYWORD", "SYMBOL",
     "GROUPING", "SEPARATOR"}

Entry(token, type) == [token |-> token, type |-> type]

\* The dict token_types, in insertion order.
token_types ==
    << Entry(<<"!">>, "UNARY"), Entry(<<"+","+">>, "UNARY"), Entry(<<"-","-">>, "UNARY"),
       Entry(<<"=">>, "BINARY"), Entry(<<"+">>, "BINARY"), Entry(<<"-">>, "BINARY"),
       Entry(<<"*">>, "BINARY"), Entry(<<"/">>, "BINARY"), Entry(<<"%">>, "BINARY"),
       Entry(<<"&","&">>, "BINARY"), Entry(<<"|","|">>, "BINARY"),
       Entry(<<"<">>, "BINARY"), Entry(<<">">>, "BINARY"),
       Entry(<<"i","f">>, "CONTROL_FLOW"), Entry(<<"e","l","i","f">>, "CONTROL_FLOW"),
       Entry(<<"e","l","s","e">>, "CONTROL_FLOW"),
       Entry(<<"w","h","i","l","e">>, "CONTROL_FLOW"),
       Entry(<<"f","o","r">>, "CONTROL_FLOW"), Entry(<<"d","o">>, "CONTROL_FLOW"),
       Entry(<<"p","r","i","n","t">>, "KEYWORD"),
       Entry(<<":">>, "SYMBOL"), Entry(<<"=",">">>, "SYMBOL"),
       Entry(<<"(">>, "GROUPING"), Entry(<<")">>, "GROUPING"), Entry(<<"{">>, "GROUPING"),
       Entry(<<"}">>, "GROUPING"), Entry(<<";">>, "GROUPING"),
       Entry(<<" ">>, "SEPARATOR"), Entry(<<",">>, "SEPARATOR") >>

\* token_types[token]
TypeOf(token) ==
    token_types[CHOOSE i \in 1..Len(token_types) : token_types[i].token = token].type

(***************************************************************************)
(* lexer.py: sorted_groupby, unpack                                        *)
(***************************************************************************)
\* The keys of token_types, in insertion order (iterating a dict yields its keys).
Keys == [i \in 1..Len(token_types) |-> token_types[i].token]

RECURSIVE Flatten(_)
Flatten(groups) ==
    IF groups = <<>> THEN <<>> ELSE Head(groups) \o Flatten(Tail(groups))

\* sorted(iterable, key=len, reverse=reverse) is stable, also when reversed:
\* elements of equal length keep their order.  groupby then yields one
\* (length, group) per run of equal lengths.
sorted_groupby(iterable, reverse) ==
    LET keys == {Len(iterable[i]) : i \in 1..Len(iterable)}
        longest == CHOOSE n \in keys : \A m \in keys : m <= n
        lengths == IF reverse
                   THEN [k \in 1..longest |-> longest + 1 - k]
                   ELSE [k \in 1..longest |-> k]
        group(n) == SelectSeq(iterable, LAMBDA t : Len(t) = n)
    IN  SelectSeq([k \in 1..longest |->
                      [key_val |-> lengths[k], group |-> group(lengths[k])]],
                  LAMBDA g : g.group # <<>>)

\* [(key_val, e) for key_val, group in grouped for e in group]
unpack(grouped) ==
    Flatten([k \in 1..Len(grouped) |->
                [j \in 1..Len(grouped[k].group) |->
                    [length |-> grouped[k].key_val, token |-> grouped[k].group[j]]]])

\* The same table with the shortest lexemes first.
SortedTypesAscending == unpack(sorted_groupby(Keys, FALSE))

\* sorted_types of Lexer.tokenize
sorted_types == unpack(sorted_groupby(Keys, TRUE))

(***************************************************************************)
(* lexer.py: Scanner                                                       *)
(***************************************************************************)
\* self.source[self.pos: self.pos + n]
peek(src, p, n) == SubSeq(src, p + 1, Min(p + n, Len(src)))

peek_at(src, p, n) ==
    IF p + n >= Len(src) THEN None ELSE src[p + n + 1]

\* self.pos += 1, then None when the new position is at or past the end,
\* else the character before the new position.
step(src, p) ==
    [pos |-> p + 1, ret |-> IF p + 1 >= Len(src) THEN None ELSE src[p + 1]]

\* "".join(self.step() for i in range(n)): join reads all n results before it
\* looks at them, and raises TypeError when one of them is None.
RECURSIVE AdvanceFrom(_, _, _, _, _)
AdvanceFrom(src, p, n, acc, sawNone) ==
    IF n <= 0
    THEN [pos |-> p, ret |-> IF sawNone THEN None ELSE acc,
          err |-> IF sawNone THEN "TypeError" ELSE ""]
    ELSE LET s == step(src, p)
         IN  IF s.ret = None
             THEN AdvanceFrom(src, s.pos, n - 1, acc, TRUE)
             ELSE AdvanceFrom(src, s.pos, n - 1, Append(acc, s.ret), sawNone)

advance(src, p, n) == AdvanceFrom(src, p, n, <<>>, FALSE)

(***************************************************************************)
(* lexer.py: Lexer.tokenize, the body of one iteration of                  *)
(*     for index, char in self.scanner.stream()                            *)
(* started with the scanner at position p < len(source).                   *)
(***************************************************************************)
\* The index in sorted_types of the first (length, token) with
\* peek(length) == token, or 0 when the for loop runs to its else.
FirstMatch(src, p) ==
    LET hits == {k \in 1..Len(sorted_types) :
                    peek(src, p, sorted_types[k].length) = sorted_types[k].token}
    IN  IF hits = {} THEN 0 ELSE CHOOSE k \in hits : \A j \in hits : k <= j

\* What one iteration does: the branch it takes, the position it leaves the
\* scanner at (before stream() adds one), the Token it yields if any, the
\* position the scanner is at when it yields, and the exception it raises.
Iteration(branch, p, emit, yield_pos, err) ==
    [branch |-> branch, pos |-> p, emit |-> emit, yield_pos |-> yield_pos, err |-> err]

\* while True: s = peek_at(i); i += 1; ... of the string branch.
\* read_string[-1] raises IndexError on the empty string.
RECURSIVE ReadString(_, _, _, _, _)
ReadString(src, p, char, i, read_string) ==
    LET s == peek_at(src, p, i)
    IN  IF s = None
        THEN [i |-> i + 1, read |-> read_string, err |-> ""]
        ELSE IF s = char
        THEN IF read_string = <<>>
             THEN [i |-> i + 1, read |-> read_string, err |-> "IndexError"]
             ELSE IF Last(read_string) # "\\"
                  THEN [i |-> i + 1, read |-> read_string, err |-> ""]
                  ELSE ReadString(src, p, char, i + 1, Append(read_string, s))
        ELSE ReadString(src, p, char, i + 1, Append(read_string, s))

\* while True: s = peek_at(i); ... i += 1 of the numeric branch.
RECURSIVE ReadNumber(_, _, _, _, _)
ReadNumber(src, p, i, num, is_float) ==
    LET s == peek_at(src, p, i)
    IN  IF s = None
        THEN [i |-> i, num |-> num, is_float |-> is_float]
        ELSE IF s \in Digits
        THEN ReadNumber(src, p, i + 1, Append(num, s), is_float)
        ELSE IF s = "." /\ ~is_float
        THEN ReadNumber(src, p, i + 1, Append(num, s), TRUE)
        ELSE [i |-> i, num |-> num, is_float |-> is_float]

\* while True: s = peek_at(i); ... i += 1 of the identifier branch.
RECURSIVE ReadIdentifier(_, _, _, _)
ReadIdentifier(src, p, i, identifier) ==
    LET s == peek_at(src, p, i)
    IN  IF s = None
        THEN [i |-> i, identifier |-> identifier]
        ELSE IF s \in allowed_identifier_chars
        THEN ReadIdentifier(src, p, i + 1, Append(identifier, s))
        ELSE [i |-> i, identifier |-> identifier]

\* The fixed lexeme consumed with advance(length): one step too many before
\* stream() adds its own.
FixedLexemeOneMore(src, p, k, oid) ==
    LET length == sorted_types[k].length
        token == sorted_types[k].token
        after == peek_at(src, p, length)
        adv == advance(src, p, length)
    IN  IF TypeOf(token) = "KEYWORD" /\ after = None
        THEN Iteration("keyword_lookahead", p, <<>>, p, "TypeError")
        ELSE IF TypeOf(token) = "KEYWORD" /\ after \in allowed_identifier_chars
        THEN Iteration("keyword_rejected", p, <<>>, p, "")
        ELSE Iteration("fixed", adv.pos, <<Token(TypeOf(token), token, None, oid)>>,
                       p, adv.err)

\* The for loop over sorted_types found (length, token) at index k.
\* "None in allowed_identifier_chars" raises TypeError.  The break of a
\* rejected keyword leaves the for loop, so its else is not run.
FixedLexeme(src, p, k, oid) ==
    LET length == sorted_types[k].length
        token == sorted_types[k].token
        after == peek_at(src, p, length)
        adv == advance(src, p, length - 1)
    IN  IF TypeOf(token) = "KEYWORD" /\ after = None
        THEN Iteration("keyword_lookahead", p, <<>>, p, "TypeError")
        ELSE IF TypeOf(token) = "KEYWORD" /\ after \in allowed_identifier_chars
        THEN Iteration("keyword_rejected", p, <<>>, p, "")
        ELSE Iteration("fixed", adv.pos, <<Token(TypeOf(token), token, None, oid)>>,
                       p, adv.err)

\* The string loop with no regard for the backslash: the first quote ends it.
RECURSIVE ReadStringNoEscape(_, _, _, _, _)
ReadStringNoEscape(src, p, char, i, read_string) ==
    LET s == peek_at(src, p, i)
    IN  IF s = None \/ s = char
        THEN [i |-> i + 1, read |-> read_string, err |-> ""]
        ELSE ReadStringNoEscape(src, p, char, i + 1, Append(read_string, s))

StringLiteralNoEscape(src, p, char, oid) ==
    LET r == ReadStringNoEscape(src, p, char, 1, <<>>)
        adv == advance(src, p, r.i - 1)
    IN  IF adv.err # ""
        THEN Iteration("string", adv.pos, <<>>, adv.pos, adv.err)
        ELSE Iteration("string", adv.pos, <<Token("VALUE", r.read, "String", oid)>>,
                       adv.pos, "")

StringLiteral(src, p, char, oid) ==
    LET r == ReadString(src, p, char, 1, <<>>)
        adv == advance(src, p, r.i - 1)
    IN  IF r.err # ""
        THEN Iteration("string", p, <<>>, p, r.err)
        ELSE IF adv.err # ""
        THEN Iteration("string", adv.pos, <<>>, adv.pos, adv.err)
        ELSE Iteration("string", adv.pos, <<Token("VALUE", r.read, "String", oid)>>,
                       adv.pos, "")

\* The numeric loop taking every "." it meets.
RECURSIVE ReadNumberDots(_, _, _, _, _)
ReadNumberDots(src, p, i, num, is_float) ==
    LET s == peek_at(src, p, i)
    IN  IF s = None
        THEN [i |-> i, num |-> num, is_float |-> is_float]
        ELSE IF s \in Digits
        THEN ReadNumberDots(src, p, i + 1, Append(num, s), is_float)
        ELSE IF s = "."
        THEN ReadNumberDots(src, p, i + 1, Append(num, s), TRUE)
        ELSE [i |-> i, num |-> num, is_float |-> is_float]

NumericLiteralDots(src, p, oid) ==
    LET r == ReadNumberDots(src, p, 0, <<>>, FALSE)
        adv == advance(src, p, r.i - 1)
    IN  IF adv.err # ""
        THEN Iteration("number", adv.pos, <<>>, adv.pos, adv.err)
        ELSE Iteration("number", adv.pos,
                       <<Token("VALUE", r.num, IF r.is_float THEN "Float" ELSE "Integer",
                               oid)>>,
                       adv.pos, "")

NumericLiteral(src, p, oid) ==
    LET r == ReadNumber(src, p, 0, <<>>, FALSE)
        adv == advance(src, p, r.i - 1)
    IN  IF adv.err # ""
        THEN Iteration("number", adv.pos, <<>>, adv.pos, adv.err)
        ELSE Iteration("number", adv.pos,
                       <<Token("VALUE", r.num, IF r.is_float THEN "Float" ELSE "Integer",
                               oid)>>,
                       adv.pos, "")

Identifier(src, p, oid) ==
    LET r == ReadIdentifier(src, p, 0, <<>>)
        adv == advance(src, p, r.i - 1)
    IN  IF adv.err # ""
        THEN Iteration("identifier", adv.pos, <<>>, adv.pos, adv.err)
        ELSE Iteration("identifier", adv.pos, <<Token("IDENTIFIER", r.identifier, None, oid)>>,
                       adv.pos, "")

\* oid: the identity of the Token object the iteration creates, if it creates one.
Body(src, p, oid) ==
    LET char == src[p + 1]
        k == FirstMatch(src, p)
    IN  IF char \in {" ", "\n"}
        THEN Iteration("whitespace", p, <<>>, p, "")
        ELSE IF k # 0
        THEN FixedLexeme(src, p, k, oid)
        ELSE IF char \in {"\"", "'"}
        THEN StringLiteral(src, p, char, oid)
        ELSE IF char \in Digits
        THEN NumericLiteral(src, p, oid)
        ELSE IF char \in allowed_identifier_chars
        THEN Identifier(src, p, oid)
        ELSE Iteration("improper", p, <<>>, p, "SyntaxError")

(***************************************************************************)
(* The sources tokenized: every concatenation of at most MaxPieces pieces. *)
(***************************************************************************)
Pieces ==
    { <<"p","r","i","n","t">>, <<"i","f">>, <<"e","r">>, <<"_">>, <<"1">>,
      <<"+">>, <<"+","+">>, <<"=">>, <<"=",">">>, <<";">>, <<",">>,
      <<" ">>, <<"\n">>, <<"'">>, <<"\\">>, <<".">> }

RECURSIVE Concatenations(_)
Concatenations(n) ==
    IF n = 0 THEN {<<>>}
    ELSE LET shorter == Concatenations(n - 1)
         IN  shorter \cup {piece \o s : piece \in Pieces, s \in shorter}

\* 'a\'b', 3.14 and 3.1.4
Examples ==
    { <<"'", "a", "\\", "'", "b", "'">>,
      <<"3", ".", "1", "4">>,
      <<"3", ".", "1", ".", "4">> }

Sources == Concatenations(MaxPieces) \cup Examples

(***************************************************************************)
(* lexer.py: no Scanner method has been called directly.                   *)
(***************************************************************************)
NoOp ==
    [name |-> "none", n |-> 0, before |-> 0, ret |-> <<>>, is_none |-> FALSE, err |-> ""]

(***************************************************************************)
(* pattern.py: no match call has been made.                                *)
(***************************************************************************)
NoCall == [matcher |-> "none", pattern |-> <<>>, filter |-> "", start |-> 0]
NoOutcome ==
    [kind |-> "none", is_match |-> 0, flag |-> "", groups_none |-> TRUE,
     groups |-> <<>>, exc |-> ""]

(***************************************************************************)
(* Lexer(source).tokenize(), one action per branch of the loop body.       *)
(***************************************************************************)
NoIteration == [start |-> 0, branch |-> "none", emit |-> <<>>, yield_pos |-> 0]

LexInit ==
    /\ source \in Sources
    /\ pos = 0
    /\ tokens = <<>>
    /\ status = "running"
    /\ last = NoIteration
    /\ stream = <<>>
    /\ idx = 0
    /\ consumed = <<>>
    /\ call = NoCall
    /\ outcome = NoOutcome
    /\ op = NoOp

\* One iteration of the loop over scanner.stream(), then stream()'s own
\* self.pos += 1 unless the body raised.
Iterate(branch) ==
    /\ status = "running"
    /\ pos < Len(source)
    /\ LET b == Body(source, pos, Len(tokens) + 1)
       IN  /\ b.branch = branch
           /\ tokens' = tokens \o b.emit
           /\ last' = [start |-> pos, branch |-> b.branch, emit |-> b.emit,
                       yield_pos |-> b.yield_pos]
           /\ IF b.err = ""
              THEN pos' = b.pos + 1 /\ status' = status
              ELSE pos' = b.pos /\ status' = b.err
    /\ UNCHANGED <<source, stream, idx, consumed, call, outcome, op>>

SkipWhitespace ==
    /\ status = "running"
    /\ Iterate("whitespace")

EmitFixedLexeme ==
    /\ status = "running"
    /\ Iterate("fixed")

RejectKeyword ==
    /\ status = "running"
    /\ Iterate("keyword_rejected")

KeywordLookahead ==
    /\ status = "running"
    /\ Iterate("keyword_lookahead")

EmitString ==
    /\ status = "running"
    /\ Iterate("string")

EmitNumber ==
    /\ status = "running"
    /\ Iterate("number")

EmitIdentifier ==
    /\ status = "running"
    /\ Iterate("identifier")

ImproperToken ==
    /\ status = "running"
    /\ Iterate("improper")


\* while self.pos < len(self.source) fails: the generator returns.
StreamEnd ==
    /\ status = "running"
    /\ pos >= Len(source)
    /\ status' = "done"
    /\ UNCHANGED <<source, pos, tokens, last, stream, idx, consumed, call, outcome, op>>

Next ==
    \/ SkipWhitespace
    \/ EmitFixedLexeme
    \/ RejectKeyword
    \/ KeywordLookahead
    \/ EmitString
    \/ EmitNumber
    \/ EmitIdentifier
    \/ ImproperToken
    \/ StreamEnd

Spec == LexInit /\ [][Next]_vars

(***************************************************************************)
(* Scanner(source), its methods called directly in any order.  step adds   *)
(* to pos without limit, so the calls stop one past the end of the source. *)
(***************************************************************************)
RECURSIVE Texts(_)
Texts(n) ==
    IF n = 0 THEN {<<>>}
    ELSE LET shorter == Texts(n - 1)
         IN  shorter \cup {Append(t, c) : t \in shorter, c \in {"a", "b"}}

ScanInit ==
    /\ source \in Texts(MaxSource)
    /\ pos = 0
    /\ op = NoOp
    /\ tokens = <<>>
    /\ status = "idle"
    /\ last = NoIteration
    /\ stream = <<>>
    /\ idx = 0
    /\ consumed = <<>>
    /\ call = NoCall
    /\ outcome = NoOutcome

\* What a call returned: a string, or a character or None.
Returned(name, n, ret, is_none, err) ==
    [name |-> name, n |-> n, before |-> pos, ret |-> ret, is_none |-> is_none, err |-> err]

ScanFrame == UNCHANGED <<source, tokens, status, last, stream, idx, consumed, call, outcome>>

CallPeek ==
    /\ status = "idle"
    /\ \E n \in 0..MaxArg :
          /\ op' = Returned("peek", n, peek(source, pos, n), FALSE, "")
          /\ pos' = pos
    /\ ScanFrame

CallPeekAt ==
    /\ status = "idle"
    /\ \E n \in 0..MaxArg :
          LET c == peek_at(source, pos, n)
          IN  /\ op' = Returned("peek_at", n, IF c = None THEN <<>> ELSE <<c>>, c = None, "")
              /\ pos' = pos
    /\ ScanFrame

CallStep ==
    /\ status = "idle"
    /\ pos <= Len(source)
    /\ LET r == step(source, pos)
       IN  /\ op' = Returned("step", 1, IF r.ret = None THEN <<>> ELSE <<r.ret>>,
                             r.ret = None, "")
           /\ pos' = r.pos
    /\ ScanFrame

CallAdvance ==
    /\ status = "idle"
    /\ \E n \in 0..MaxArg :
          /\ pos + n <= Len(source) + 1
          /\ LET r == advance(source, pos, n)
             IN  /\ op' = Returned("advance", n, IF r.err = "" THEN r.ret ELSE <<>>,
                                   FALSE, r.err)
                 /\ pos' = r.pos
    /\ ScanFrame

ScanNext ==
    \/ CallPeek
    \/ CallPeekAt
    \/ CallStep
    \/ CallAdvance

SpecScanner == ScanInit /\ [][ScanNext]_vars

(***************************************************************************)
(* The token cursor the matchers are given.  It is not part of these       *)
(* sources: iteration yields the next token and advances, and signals the  *)
(* end of the stream with StopIteration; peek() returns the next token     *)
(* without advancing, None at the end; consume(n) advances by n.           *)
(***************************************************************************)
\* Python's None where a Token is expected.
NoToken == Token(None, <<>>, None, 0)

\* token_stream.peek()
cursor_peek(toks, i) == IF i >= Len(toks) THEN NoToken ELSE toks[i + 1]

\* The cursor has a token left for next(token_stream) to return.
cursor_has_next(toks, i) == i < Len(toks)

\* token_stream.consume(n)
cursor_consume(i, n) == i + n

(***************************************************************************)
(* pattern.py: Match, and what a call of match() does.                     *)
(***************************************************************************)
\* Match(is_match, groups).  is_match is the Python value: True is 1 and False
\* is 0, and flag says whether it is a bool or an int.  groups is None when
\* groups_none holds.
Match(is_match, flag, groups_none, groups) ==
    [kind |-> "match", is_match |-> is_match, flag |-> flag,
     groups_none |-> groups_none, groups |-> groups, exc |-> ""]

\* match() returned None instead of a Match.
ReturnedNone ==
    [kind |-> "returned_none", is_match |-> 0, flag |-> "", groups_none |-> TRUE,
     groups |-> <<>>, exc |-> ""]

\* match() raised exc.
Raise(exc) ==
    [kind |-> "raised", is_match |-> 0, flag |-> "", groups_none |-> TRUE,
     groups |-> <<>>, exc |-> exc]

\* What a call leaves behind: the cursor's position, the consume calls it made,
\* and its outcome.
Result(i, consume_calls, out) == [idx |-> i, consumed |-> consume_calls, outcome |-> out]

\* a == b for Tokens a and b: Token has no __eq__, so == is identity.
TokenEq(a, b) == a.oid = b.oid

\* The Token objects the patterns are built with.
SEMICOLON == Token("GROUPING", <<";">>, None, -1)
COMMA == Token("SEPARATOR", <<",">>, None, -2)
OPEN_PAREN == Token("GROUPING", <<"(">>, None, -3)
NAME_A == Token("IDENTIFIER", <<"a">>, None, -4)

\* An element of a TokenSequence pattern: a TokenType or a Token.
OfType(token_type) == [is |-> "TokenType", token_type |-> token_type, token |-> NoToken]
Exactly(token) == [is |-> "Token", token_type |-> token.token_type, token |-> token]

\* TokenSequence.check_token: self.pattern[i] raises IndexError past the end of
\* the tuple.  i counts from 0.
check_token(pattern, i, token) ==
    IF i >= Len(pattern) THEN "IndexError"
    ELSE LET p == pattern[i + 1]
         IN  IF p.is = "TokenType"
             THEN IF token.token_type = p.token_type THEN "True" ELSE "False"
             ELSE IF p.is = "Token"
             THEN IF TokenEq(token, p.token) THEN "True" ELSE "False"
             ELSE "TypeError"

\* for i, token in enumerate(token_stream.stream()): each token pulled advances
\* the cursor.  The for loop ends at the end of the stream, and its else runs.
RECURSIVE TokenSequenceLoop(_, _, _, _)
TokenSequenceLoop(pattern, toks, i, n) ==
    IF ~cursor_has_next(toks, n)
    THEN Result(cursor_consume(n, Len(pattern)), <<Len(pattern)>>,
                Match(1, "bool", TRUE, <<>>))
    ELSE LET c == check_token(pattern, i, toks[n + 1])
         IN  IF c = "True" THEN TokenSequenceLoop(pattern, toks, i + 1, n + 1)
             ELSE IF c = "False" THEN Result(n + 1, <<>>, Match(0, "bool", TRUE, <<>>))
             ELSE Result(n + 1, <<>>, Raise(c))

\* The same loop without its break: a mismatch is remembered and the rest of
\* the stream is pulled all the same.
TokenSequenceDrain(pattern, toks, n) ==
    LET r == TokenSequenceLoop(pattern, toks, 0, n)
    IN  IF r.outcome.kind = "match" /\ r.outcome.is_match = 0
        THEN Result(Len(toks), <<>>, r.outcome)
        ELSE r

TokenSequence_match(pattern, toks, n) == TokenSequenceLoop(pattern, toks, 0, n)

\* for token in token_stream: the for loop takes the end of the stream as its
\* end, so no StopIteration reaches the except, and the method falls off its
\* end: it returns None.
RECURSIVE TerminatingLoop(_, _, _)
TerminatingLoop(terminator, toks, n) ==
    IF ~cursor_has_next(toks, n)
    THEN Result(n, <<>>, ReturnedNone)
    ELSE IF TokenEq(toks[n + 1], terminator)
    THEN Result(n + 1, <<>>, Match(1, "bool", TRUE, <<>>))
    ELSE TerminatingLoop(terminator, toks, n + 1)

TerminatingSequence_match(terminator, toks, n) == TerminatingLoop(terminator, toks, n)

\* buffer[1:-1]
Interior(buffer) == SubSeq(buffer, 2, Len(buffer) - 1)

RECURSIVE BracketedLoop(_, _, _, _, _, _)
BracketedLoop(open, close, toks, n, buffer, level) ==
    IF ~cursor_has_next(toks, n)
    THEN Result(n, <<>>, Raise("SyntaxError"))
    ELSE LET token == toks[n + 1]
             l == IF TokenEq(token, open) THEN level + 1
                  ELSE IF token.value = close THEN level - 1
                  ELSE level
             b == Append(buffer, token)
         IN  IF l = 0
             THEN Result(n + 1, <<>>, Match(Len(b), "int", FALSE, Interior(b)))
             ELSE BracketedLoop(open, close, toks, n + 1, b, l)

BracketedSequence_match(open, close, toks, n) ==
    BracketedLoop(open, close, toks, n, <<>>, 0)

\* The element predicates: the default lambda x: True, and one that accepts the
\* IDENTIFIER tokens (and not None).
filter_func(name, e) ==
    IF name = "default" THEN TRUE
    ELSE e # NoToken /\ e.token_type = "IDENTIFIER"

\* next(token_stream) at the end of the stream raises StopIteration.
RECURSIVE DelimitedLoop(_, _, _, _, _)
DelimitedLoop(filter, delimiter, toks, n, groups) ==
    LET e == cursor_peek(toks, n)
    IN  IF ~filter_func(filter, e)
        THEN Result(n, <<>>, Match(1, "bool", FALSE, groups))
        ELSE IF ~cursor_has_next(toks, n)
        THEN Result(n, <<>>, Raise("StopIteration"))
        ELSE LET d == cursor_peek(toks, n + 1)
             IN  IF TokenEq(d, delimiter)
                 THEN DelimitedLoop(filter, delimiter, toks, n + 2, Append(groups, e))
                 ELSE Result(n + 1, <<>>, Match(1, "bool", FALSE, Append(groups, e)))

DelimitedSequence_match(filter, delimiter, toks, n) ==
    DelimitedLoop(filter, delimiter, toks, n, <<>>)

(***************************************************************************)
(* The cursors matched against: every stream of at most MaxStream tokens,  *)
(* each either a Token of its own (as the tokenizer makes them) or one of  *)
(* the Token objects the patterns hold, at every position of the cursor.   *)
(***************************************************************************)
\* The token at index k of a stream, as a new object.
Fresh(k) ==
    { Token("IDENTIFIER", <<"a">>, None, k), Token("VALUE", <<"a">>, "String", k),
      Token("SEPARATOR", <<",">>, None, k), Token("GROUPING", <<"(">>, None, k),
      Token("GROUPING", <<")">>, None, k), Token("GROUPING", <<";">>, None, k) }

PatternObjects == {SEMICOLON, COMMA, OPEN_PAREN, NAME_A}

RECURSIVE StreamsOfLen(_)
StreamsOfLen(n) ==
    IF n = 0 THEN {<<>>}
    ELSE {Append(s, t) : s \in StreamsOfLen(n - 1), t \in Fresh(n) \cup PatternObjects}

\* The Tokens the tokenizer makes of a text, each an object of its own.
AsTokens(text) ==
    [k \in 1..Len(text) |->
        Token(IF text[k] \in {"(", ")"} THEN "GROUPING"
              ELSE IF text[k] = "," THEN "SEPARATOR" ELSE "IDENTIFIER",
              <<text[k]>>, None, k)]

\* The tokens of "(a,(b,c))", "(a,(b,c)" and "a,b,c,".
ExampleStreams ==
    { AsTokens(<<"(", "a", ",", "(", "b", ",", "c", ")", ")">>),
      AsTokens(<<"(", "a", ",", "(", "b", ",", "c", ")">>),
      AsTokens(<<"a", ",", "b", ",", "c", ",">>) }

Streams == UNION {StreamsOfLen(n) : n \in 0..MaxStream} \cup ExampleStreams

Patterns ==
    { <<>>,
      <<OfType("IDENTIFIER")>>,
      <<Exactly(NAME_A)>>,
      <<OfType("IDENTIFIER"), OfType("SEPARATOR")>>,
      <<Exactly(OPEN_PAREN), OfType("IDENTIFIER")>> }

Filters == {"default", "identifier"}

Call(matcher, pattern, filter, start) ==
    [matcher |-> matcher, pattern |-> pattern, filter |-> filter, start |-> start]

MatchInit ==
    /\ stream \in Streams
    /\ idx \in 0..Len(stream)
    /\ consumed = <<>>
    /\ call = NoCall
    /\ outcome = NoOutcome
    /\ source = <<>>
    /\ pos = 0
    /\ tokens = <<>>
    /\ status = "idle"
    /\ last = NoIteration
    /\ op = NoOp

\* One call of match() on the cursor.
Apply(c, r) ==
    /\ call' = c
    /\ idx' = r.idx
    /\ consumed' = consumed \o r.consumed
    /\ outcome' = r.outcome
    /\ UNCHANGED <<stream, source, pos, tokens, status, last, op>>

MatchTokenSequence ==
    /\ call.matcher = "none"
    /\ \E pattern \in Patterns :
          Apply(Call("TokenSequence", pattern, "", idx),
                TokenSequence_match(pattern, stream, idx))

MatchTerminatingSequence ==
    /\ call.matcher = "none"
    /\ Apply(Call("TerminatingSequence", <<>>, "", idx),
             TerminatingSequence_match(SEMICOLON, stream, idx))

MatchBracketedSequence ==
    /\ call.matcher = "none"
    /\ Apply(Call("BracketedSequence", <<>>, "", idx),
             BracketedSequence_match(OPEN_PAREN, <<")">>, stream, idx))

MatchDelimitedSequence ==
    /\ call.matcher = "none"
    /\ \E filter \in Filters :
          Apply(Call("DelimitedSequence", <<>>, filter, idx),
                DelimitedSequence_match(filter, COMMA, stream, idx))

MatchNext ==
    \/ MatchTokenSequence
    \/ MatchTerminatingSequence
    \/ MatchBracketedSequence
    \/ MatchDelimitedSequence

SpecMatch == MatchInit /\ [][MatchNext]_vars

(***************************************************************************)
(* Properties of Lexer.tokenize, checked under Spec.                       *)
(***************************************************************************)
KeywordPrint == <<"p","r","i","n","t">>

Whitespace == {" ", "\n"}

Raised == {"TypeError", "IndexError", "SyntaxError"}

\* tokenize has run an iteration that started at a non-whitespace character.
Started == last.branch \notin {"none", "whitespace"}

\* The declared lexemes that equal the upcoming characters at position p.
Candidates(src, p) ==
    {k \in 1..Len(token_types) :
        peek(src, p, Len(token_types[k].token)) = token_types[k].token}

\* The maximal run of identifier characters of src that starts at position p.
IdentifierRun(src, p) ==
    LET ends == {n \in 0..(Len(src) - p) :
                    \A j \in 1..n : src[p + j] \in allowed_identifier_chars}
        n == CHOOSE n \in ends : \A m \in ends : m <= n
    IN  SubSeq(src, p + 1, p + n)

\* The iteration run last yielded exactly one Token, of this type and value.
Yielded(token_type, value) ==
    /\ Len(last.emit) = 1
    /\ last.emit[1].token_type = token_type
    /\ last.emit[1].value = value

\* "print" is upcoming at the position the last iteration started at.
KeywordAhead == Started /\ peek(source, last.start, Len(KeywordPrint)) = KeywordPrint

\* C1: where "print" is immediately followed by a letter, digit or underscore,
\* tokenize yields no KEYWORD there but one IDENTIFIER whose value is the whole
\* identifier run that starts at the "p".
C1_KeywordBoundary ==
    (KeywordAhead /\ peek_at(source, last.start, Len(KeywordPrint)) \in allowed_identifier_chars)
        => Yielded("IDENTIFIER", IdentifierRun(source, last.start))

\* A source that is a concatenation of declared lexemes, spaces and newlines.
RECURSIVE IsLexemeText(_)
IsLexemeText(s) ==
    \/ s = <<>>
    \/ Head(s) \in Whitespace /\ IsLexemeText(Tail(s))
    \/ \E k \in 1..Len(token_types) :
          LET n == Len(token_types[k].token)
          IN  /\ n <= Len(s)
              /\ SubSeq(s, 1, n) = token_types[k].token
              /\ IsLexemeText(SubSeq(s, n + 1, Len(s)))

\* The values of the Tokens yielded, concatenated in order.
Values == Flatten([k \in 1..Len(tokens) |-> tokens[k].value])

\* C2: on a source made of declared lexemes and whitespace only, tokenize runs to
\* completion without an error, and the concatenated values of its Tokens are
\* the source without its spaces and newlines.
C2_RoundTrip ==
    IsLexemeText(source)
        => /\ status \notin Raised
           /\ status = "done"
                => Values = SelectSeq(source, LAMBDA c : c \notin Whitespace)

\* The longest of the declared lexemes that equal the upcoming characters at p.
Longest(src, p) ==
    LET c == Candidates(src, p)
        k == CHOOSE k \in c :
                \A j \in c : Len(token_types[j].token) <= Len(token_types[k].token)
    IN  token_types[k]

\* C3: where tokenize starts a token and two or more declared lexemes equal the
\* upcoming characters, it yields the longest of them, as one Token, and moves
\* past it; "++" alone yields exactly one UNARY Token "++".
C3_LongestMatch ==
    /\ (Started /\ Cardinality(Candidates(source, last.start)) >= 2)
         => LET e == Longest(source, last.start)
            IN  /\ Yielded(e.type, e.token)
                /\ status \notin Raised
                /\ pos = last.start + Len(e.token)
    /\ (source = <<"+","+">> /\ status = "done")
         => /\ Len(tokens) = 1
            /\ tokens[1].token_type = "UNARY"
            /\ tokens[1].value = <<"+","+">>

\* tokenize has yielded a two-character lexeme where a one-character lexeme
\* matched too.
C3_Witness ==
    /\ Started
    /\ Cardinality(Candidates(source, last.start)) >= 2
    /\ Len(last.emit) = 1
    /\ Len(last.emit[1].value) = 2
    /\ status = "done"

\* C4: where "print" is upcoming and the character after it is not a letter,
\* digit or underscore, or there is none, tokenize yields one KEYWORD Token
\* "print", moves past the lexeme and raises nothing.
C4_KeywordAccepted ==
    (KeywordAhead /\ peek_at(source, last.start, Len(KeywordPrint)) \notin allowed_identifier_chars)
        => /\ Yielded("KEYWORD", KeywordPrint)
           /\ status \notin Raised
           /\ pos = last.start + Len(KeywordPrint)

(***************************************************************************)
(* Properties of the pattern matchers, checked under SpecMatch.            *)
(***************************************************************************)
\* Tokens a and b have the same kind and the same value.
SameContent(a, b) == a.token_type = b.token_type /\ a.value = b.value

\* The number of tokens the cursor had left when match() was called.
Remaining == Len(stream) - call.start

\* The token at offset i (from 0) of the cursor when match() was called.
TokenAt(i) == stream[call.start + i + 1]

\* C5: TerminatingSequence.match on a stream that runs out before a token equal
\* to the terminator appears raises an error; it does not return.
C5_TerminatorMissingRaises ==
    (/\ call.matcher = "TerminatingSequence"
     /\ \A i \in 0..(Remaining - 1) : ~SameContent(TokenAt(i), SEMICOLON))
        => outcome.kind = "raised"

\* C6: TokenSequence.match on a stream that holds fewer tokens than the pattern,
\* all of them matching their expectations, returns a Match that is false,
\* calls consume not at all and raises nothing.
C6_ShortStreamFails ==
    (/\ call.matcher = "TokenSequence"
     /\ Remaining < Len(call.pattern)
     /\ \A i \in 0..(Remaining - 1) : check_token(call.pattern, i, TokenAt(i)) = "True")
        => /\ outcome.kind = "match"
           /\ outcome.is_match = 0
           /\ consumed = <<>>

\* C7: TokenSequence.match on a stream whose first len(pattern) tokens satisfy the
\* pattern, whatever follows them, returns a true Match with no groups, calls
\* consume(len(pattern)) exactly once and raises nothing.
C7_PrefixSucceeds ==
    (/\ call.matcher = "TokenSequence"
     /\ Remaining >= Len(call.pattern)
     /\ \A i \in 0..(Len(call.pattern) - 1) :
            check_token(call.pattern, i, TokenAt(i)) = "True")
        => /\ outcome.kind = "match"
           /\ outcome.is_match = 1
           /\ outcome.groups_none
           /\ consumed = <<Len(call.pattern)>>

\* Token t satisfies expectation p by content: a Token by kind and value, a
\* TokenType by kind.
Satisfies(p, t) ==
    IF p.is = "Token" THEN SameContent(t, p.token) ELSE t.token_type = p.token_type

\* The offsets at which the cursor held a token with the terminator's content.
TerminatorsAt == {i \in 0..(Remaining - 1) : SameContent(TokenAt(i), SEMICOLON)}

\* C8: the matchers compare tokens by content: a Token expectation (and the
\* terminator) matches a stream token exactly when kind and value are equal,
\* also when the two are distinct objects; a TokenType matches by kind.  Stated
\* of TokenSequence on a stream of exactly len(pattern) tokens, and of
\* TerminatingSequence, which stops at the first token with the terminator's content.
C8_MatchByContent ==
    /\ (call.matcher = "TokenSequence" /\ Remaining = Len(call.pattern))
         => /\ outcome.kind = "match"
            /\ outcome.is_match = 1
                 <=> \A i \in 0..(Remaining - 1) : Satisfies(call.pattern[i + 1], TokenAt(i))
    /\ (call.matcher = "TerminatingSequence" /\ TerminatorsAt # {})
         => /\ outcome.kind = "match"
            /\ outcome.is_match = 1
            /\ \A i \in TerminatorsAt : idx <= call.start + i + 1

\* The elements a delimited sequence holds from offset i on: tokens satisfying
\* the predicate, separated by tokens with the delimiter's content.
RECURSIVE Elements(_, _)
Elements(filter, i) ==
    IF i >= Remaining \/ ~filter_func(filter, TokenAt(i)) THEN <<>>
    ELSE <<TokenAt(i)>> \o
         (IF i + 1 < Remaining /\ SameContent(TokenAt(i + 1), COMMA)
          THEN Elements(filter, i + 2) ELSE <<>>)

\* C9: DelimitedSequence.match never fails and never raises: on every stream and
\* with every predicate it returns a true Match whose group is the captured
\* element tokens in order, none of them None.
C9_DelimitedAlwaysSucceeds ==
    call.matcher = "DelimitedSequence"
        => /\ outcome.kind = "match"
           /\ outcome.is_match = 1
           /\ ~outcome.groups_none
           /\ \A k \in 1..Len(outcome.groups) : outcome.groups[k] # NoToken
           /\ outcome.groups = Elements(call.filter, 0)

\* The offset of the close bracket that brings the nesting level, level at
\* offset i, back to zero; -1 when there is none.
RECURSIVE ClosingAt(_, _)
ClosingAt(i, level) ==
    IF i >= Remaining THEN -1
    ELSE LET l == IF SameContent(TokenAt(i), OPEN_PAREN) THEN level + 1
                  ELSE IF TokenAt(i).value = <<")">> THEN level - 1
                  ELSE level
         IN  IF l = 0 THEN i ELSE ClosingAt(i + 1, l)

\* C10: BracketedSequence.match on a stream that begins with the open bracket
\* and holds its matching close bracket returns success, the group being the
\* tokens strictly between the two, and leaves the cursor right after the
\* matching close bracket.
C10_BracketedInterior ==
    (/\ call.matcher = "BracketedSequence"
     /\ Remaining > 0
     /\ SameContent(TokenAt(0), OPEN_PAREN)
     /\ ClosingAt(0, 0) > 0)
        => LET m == ClosingAt(0, 0)
           IN  /\ outcome.kind = "match"
               /\ outcome.is_match # 0
               /\ outcome.groups = [k \in 1..(m - 1) |-> TokenAt(k)]
               /\ idx = call.start + m + 1

\* C11: BracketedSequence.match on a stream that is empty, or that runs out
\* while the nesting counter is not zero, raises the error "unbalanced
\* bracketed expression"; it returns no Match.
C11_UnbalancedRaises ==
    (/\ call.matcher = "BracketedSequence"
     /\ ClosingAt(0, 0) = -1)
        => /\ outcome.kind = "raised"
           /\ outcome.exc = "SyntaxError"

\* C17: BracketedSequence.match stops only when the counter is back at zero
\* after it was positive: on a stream whose first token is not the open
\* bracket it reports no successful span.
C17_NeedsOpenBracketFirst ==
    (/\ call.matcher = "BracketedSequence"
     /\ Remaining > 0
     /\ ~SameContent(TokenAt(0), OPEN_PAREN))
        => ~(outcome.kind = "match" /\ outcome.is_match # 0)

\* The offsets below len(pattern) at which the cursor held a token that does
\* not satisfy its expectation.
Mismatches ==
    {i \in 0..(Min(Remaining, Len(call.pattern)) - 1) :
        ~Satisfies(call.pattern[i + 1], TokenAt(i))}

\* C18: when the token at offset i < len(pattern) is the first that does not
\* satisfy its expectation, TokenSequence.match pulls no token beyond it, does
\* not call consume, and returns a Match that is false; it does not raise.
C18_StopsAtFirstMismatch ==
    (call.matcher = "TokenSequence" /\ Mismatches # {})
        => LET i == CHOOSE i \in Mismatches : \A j \in Mismatches : i <= j
           IN  /\ idx <= call.start + i + 1
               /\ consumed = <<>>
               /\ outcome.kind = "match"
               /\ outcome.is_match = 0

\* TokenSequence.match has stopped at a mismatch of the second expectation
\* with a token left in the stream.
C18_Witness ==
    /\ call.matcher = "TokenSequence"
    /\ Mismatches = {1}
    /\ Remaining > 2
    /\ idx = call.start + 2
    /\ outcome.kind = "match"
    /\ outcome.is_match = 0

(***************************************************************************)
(* Properties of the Scanner, checked under SpecScanner.                   *)
(***************************************************************************)
\* C12: at every position before < len(source), the last character included,
\* step() returns the character at that position and leaves the position one
\* further; only at or past the end does it return None.
C12_StepReturnsCurrent ==
    op.name = "step"
        => /\ pos = op.before + 1
           /\ IF op.before < Len(source)
              THEN ~op.is_none /\ op.ret = <<source[op.before + 1]>>
              ELSE op.is_none

\* C13: peek(n), peek_at(n), step() and advance(n) never raise; advance(n)
\* with fewer than n characters left, or consuming the last character,
\* returns the characters it could read.
C13_ScannerNeverRaises ==
    /\ op.err = ""
    /\ op.name = "advance"
         => op.ret = SubSeq(source, op.before + 1, Min(op.before + op.n, Len(source)))

\* Over direct Scanner calls the position never goes back, and peek and
\* peek_at leave it where it was (the Scanner half of C19, under SpecScanner).
ScannerPositionKept ==
    op.name # "none"
        => /\ pos >= op.before
           /\ op.name \in {"peek", "peek_at"} => pos = op.before

(***************************************************************************)
(* Properties of the literals of Lexer.tokenize, checked under Spec.       *)
(***************************************************************************)
\* The iteration run last started at a quote character.
AtQuote == Started /\ source[last.start + 1] \in {"\"", "'"}

\* The offsets from the opening quote at position p of the quotes that close
\* the literal: equal to the opening quote and not preceded by a backslash.
Closers(src, p) ==
    {j \in 1..(Len(src) - p - 1) : src[p + j + 1] = src[p + 1] /\ src[p + j] # "\\"}

\* The first of them.
Closer(src, p) == CHOOSE j \in Closers(src, p) : \A k \in Closers(src, p) : j <= k

\* The iteration run last yielded exactly one VALUE Token of this value and type.
YieldedValue(value, node_type) ==
    /\ Yielded("VALUE", value)
    /\ last.emit[1].node_type = node_type

\* C14: a string literal the input ends before closing ends silently: nothing
\* is raised, one VALUE Token with the contents read so far, typed String, is
\* yielded, and tokenization finishes normally.
C14_UnterminatedStringSilent ==
    (AtQuote /\ Closers(source, last.start) = {})
        => /\ status \notin Raised
           /\ YieldedValue(SubSeq(source, last.start + 2, Len(source)), "String")
           /\ pos = Len(source)

\* C15: in a terminated string literal a quote that follows a backslash does
\* not end the literal: one VALUE Token typed String is yielded, its value the
\* characters between the delimiting quotes, and scanning resumes right after
\* the closing quote; 'a\'b' yields the one value a\'b.
C15_StringEscape ==
    /\ (AtQuote /\ Closers(source, last.start) # {} /\ Closer(source, last.start) > 1)
         => LET j == Closer(source, last.start)
            IN  /\ status \notin Raised
                /\ YieldedValue(SubSeq(source, last.start + 2, last.start + j), "String")
                /\ pos = last.start + j + 1
    /\ (source = <<"'", "a", "\\", "'", "b", "'">> /\ status # "running")
         => /\ status = "done"
            /\ Len(tokens) = 1
            /\ tokens[1].value = <<"a", "\\", "'", "b">>

\* tokenize has yielded a string whose value holds an escaped quote.
C15_Witness ==
    /\ AtQuote
    /\ Len(last.emit) = 1
    /\ \E k \in 2..Len(last.emit[1].value) :
          /\ last.emit[1].value[k] = source[last.start + 1]
          /\ last.emit[1].value[k - 1] = "\\"
    /\ status = "done"

\* The longest run of digits with at most one "." in it that starts at p.
NumberRun(src, p) ==
    LET ok(n) == /\ \A j \in 1..n : src[p + j] \in Digits \cup {"."}
                 /\ Cardinality({j \in 1..n : src[p + j] = "."}) <= 1
        ends == {n \in 0..(Len(src) - p) : ok(n)}
        n == CHOOSE n \in ends : \A m \in ends : m <= n
    IN  SubSeq(src, p + 1, p + n)

HasDot(text) == \E k \in 1..Len(text) : text[k] = "."

\* The iteration run last started at a digit.
AtDigit == Started /\ source[last.start + 1] \in Digits

\* What tokenize made of the numeric literal it started at a digit: one VALUE
\* Token, the longest run of digits with at most one ".", Float with a "." and
\* Integer without, the scanner left right after the run.
NumberRead ==
    AtDigit
        => LET run == NumberRun(source, last.start)
           IN  /\ status \notin Raised
               /\ YieldedValue(run, IF HasDot(run) THEN "Float" ELSE "Integer")
               /\ pos = last.start + Len(run)

Pi == <<"3", ".", "1", "4">>
TwoDots == <<"3", ".", "1", ".", "4">>

PiRead ==
    (source = Pi /\ status # "running")
        => /\ status = "done"
           /\ Len(tokens) = 1
           /\ tokens[1].value = Pi
           /\ tokens[1].node_type = "Float"

\* C16 as stated: the numeric literal is the longest run of digits with at most
\* one ".", Float or Integer; "3.14" yields one Float "3.14"; "3.1.4" yields
\* the Float "3.1" followed by further tokens for ".4".
C16_NumericLiteral ==
    /\ NumberRead
    /\ PiRead
    /\ (source = TwoDots /\ status # "running")
         => /\ status = "done"
            /\ Len(tokens) >= 2
            /\ tokens[1].value = <<"3", ".", "1">>
            /\ tokens[1].node_type = "Float"

\* C16 amended: as above, but after the Float "3.1" of "3.1.4" the second "."
\* is the next thing scanned and, being no declared lexeme, raises
\* SyntaxError: no further token is yielded.
C16_NumericLiteralAmended ==
    /\ NumberRead
    /\ PiRead
    /\ (source = TwoDots /\ status # "running")
         => /\ status = "SyntaxError"
            /\ pos = 3
            /\ Len(tokens) = 1
            /\ tokens[1].value = <<"3", ".", "1">>
            /\ tokens[1].node_type = "Float"

\* tokenize has stopped at the second "." of "3.1.4".
C16_Witness ==
    /\ source = TwoDots
    /\ status = "SyntaxError"
    /\ last.start = 3
    /\ Len(tokens) = 1

\* The number of characters of the source a yielded Token stands for.
LexemeLen(token) ==
    IF token.node_type = "String" THEN Len(token.value) + 2 ELSE Len(token.value)

\* C19 as stated: the position never goes back, and each time tokenize hands
\* over a Token the position is at the first character after that Token's
\* lexeme.
C19_PositionAtYield ==
    /\ last.start <= last.yield_pos
    /\ last.yield_pos <= pos
    /\ Len(last.emit) = 1
         => last.yield_pos = last.start + LexemeLen(last.emit[1])

\* C19 amended: the position never goes back; when tokenize hands over a Token
\* the position is still inside its lexeme, at its first character for a fixed
\* lexeme and at its last for a literal or an identifier, and it is at the
\* first character after the lexeme once the iteration that yielded the Token
\* is over.
C19_PositionAfterIteration ==
    /\ last.start <= last.yield_pos
    /\ last.yield_pos <= pos
    /\ Len(last.emit) = 1
         => /\ status \notin Raised
            /\ pos = last.start + LexemeLen(last.emit[1])
            /\ last.yield_pos = IF last.branch = "fixed" THEN last.start ELSE pos - 1

\* tokenize has handed over a two-character fixed lexeme and gone on.
C19_Witness ==
    /\ last.branch = "fixed"
    /\ Len(last.emit) = 1
    /\ Len(last.emit[1].value) = 2
    /\ last.yield_pos = last.start
    /\ pos = last.start + 2

\* C20: a quote immediately followed by the same quote yields one VALUE Token
\* with empty contents, typed String, raises nothing, and scanning resumes
\* right after the closing quote.
C20_EmptyString ==
    (AtQuote /\ Closers(source, last.start) # {} /\ Closer(source, last.start) = 1)
        => /\ status \notin Raised
           /\ YieldedValue(<<>>, "String")
           /\ pos = last.start + 2
=============================================================================
